---- MODULE Spec2Model ----
(***************************************************************************)
(* Model of the no_std listener list of event-listener (src/src/no_std.rs): *)
(* a slab-backed doubly linked list of listeners guarded by a try-lock,    *)
(* with an intake queue of deferred operations that the lock holder drains *)
(* when it drops its guard.                                                *)
(*                                                                         *)
(* Option<NonZeroUsize> is modelled as a natural number: 0 is None and a   *)
(* key k >= 1 is Some(k).  The Vec<Entry> `listeners` is modelled as the   *)
(* sequence of its entries at indices 1.. (index 0 is always the           *)
(* Sentinel), so that the Rust listeners.len() is Len(listeners) + 1.      *)
(***************************************************************************)
EXTENDS Naturals, Sequences, FiniteSets

\* ------------------------------------------------------------------ bounds
NT == 2
NH == 2
MaxSlots == 3
MaxQueue == 2
MaxN == 2
MaxCalls == 5
\* The slab driven directly: listeners held at once, notify counts, tasks.
SlabCap == 3
SlabMaxN == 3
NTasks == 2
\* The mutex driven directly: spurious failures of one try_lock call, the
\* compare-exchange attempts counted per call, increments made through guards.
MaxSpurious == 1
WeakCap == 3
MaxWrites == 2

\* usize::MAX, the "every listener is notified" value of Inner::notified
\* (platform dependent; any value above every reachable count behaves alike).
UsizeMax == 2147483647

\* try_lock_slow: "let mut spins = 100u32".
Spins == 100

Threads == 1 .. NT
Handles == 1 .. NH
\* One TaskWaiting can be referenced by each handle, each queued node and the
\* node the drainer is applying.
MaxTW == NH + MaxQueue + 1

None == 0

\* ------------------------------------------------------------ State (lib.rs)
Created == [tag |-> "Created"]
TaskState(t) == [tag |-> "Task", task |-> t]
Notified(additional) == [tag |-> "Notified", additional |-> additional]
NotifiedTaken == [tag |-> "NotifiedTaken"]

is_notified(st) == st.tag \in {"Notified", "NotifiedTaken"}

\* Task::will_wake: a task is identified by the waker it wraps.
will_wake(task, other) == task = other

\* ------------------------------------------------------------------- Entry
ListenerEntry(st, p, n) == [kind |-> "Listener", state |-> st, prev |-> p, next |-> n]
EmptyEntry(n) == [kind |-> "Empty", next_empty |-> n]

\* --------------------------------------------------------------- the slab
SlabNew ==
    [listeners |-> <<>>, head |-> None, tail |-> None, start |-> None,
     notified |-> 0, len |-> 0, first_empty |-> 1]

\* Whether key names a Listener entry: what Entry::state/prev/next require.
IsListener(s, key) ==
    /\ key \in 1 .. Len(s.listeners)
    /\ s.listeners[key].kind = "Listener"

\* SlabInsert with the test on start left out: the new listener always becomes
\* the next one to notify.
SlabInsertAlwaysStart(s, st) ==
    LET key == s.first_empty
        entry == ListenerEntry(st, s.tail, None)
        grown == key = Len(s.listeners) + 1
        l1 == IF grown THEN Append(s.listeners, entry)
              ELSE [s.listeners EXCEPT ![key] = entry]
        fe == IF grown THEN Len(s.listeners) + 2
              ELSE s.listeners[key].next_empty
        l2 == IF s.tail = None THEN l1 ELSE [l1 EXCEPT ![s.tail].next = key]
    IN  [slab |-> [listeners |-> l2,
                   head |-> IF s.tail = None THEN key ELSE s.head,
                   tail |-> key,
                   start |-> key,
                   notified |-> s.notified,
                   len |-> s.len + 1,
                   first_empty |-> fe],
         key |-> key]

\* ListenerSlab::insert.
SlabInsert(s, st) ==
    LET key == s.first_empty
        entry == ListenerEntry(st, s.tail, None)
        grown == key = Len(s.listeners) + 1
        l1 == IF grown THEN Append(s.listeners, entry)
              ELSE [s.listeners EXCEPT ![key] = entry]
        fe == IF grown THEN Len(s.listeners) + 2
              ELSE s.listeners[key].next_empty
        l2 == IF s.tail = None THEN l1 ELSE [l1 EXCEPT ![s.tail].next = key]
    IN  [slab |-> [listeners |-> l2,
                   head |-> IF s.tail = None THEN key ELSE s.head,
                   tail |-> key,
                   start |-> IF s.start = None THEN key ELSE s.start,
                   notified |-> s.notified,
                   len |-> s.len + 1,
                   first_empty |-> fe],
         key |-> key]

\* The loop of ListenerSlab::notify; woken collects the tasks whose wake() the
\* loop calls, in order.
RECURSIVE NotifyLoop(_, _, _, _)
NotifyLoop(s, n, additional, woken) ==
    IF n = 0 \/ s.start = None
    THEN [slab |-> s, woken |-> woken]
    ELSE LET e == s.start
             entry == s.listeners[e]
             old == entry.state
             s1 == [s EXCEPT !.start = entry.next,
                             !.listeners[e].state = Notified(additional),
                             !.notified = @ + 1]
         IN  NotifyLoop(s1, n - 1, additional,
                        IF old.tag = "Task" THEN Append(woken, old.task) ELSE woken)

\* SlabNotify without the clamp of a non-additional count.
SlabNotifyNoClamp(s, n, additional) == NotifyLoop(s, n, additional, <<>>)

\* SlabNotify with the clamp applied whatever `additional` says.
SlabNotifyAlwaysClamp(s, n, additional) ==
    IF n <= s.notified
    THEN [slab |-> s, woken |-> <<>>]
    ELSE NotifyLoop(s, n - s.notified, additional, <<>>)

\* ListenerSlab::notify.
SlabNotify(s, n, additional) ==
    IF ~additional /\ n <= s.notified
    THEN [slab |-> s, woken |-> <<>>]
    ELSE NotifyLoop(s, IF additional THEN n ELSE n - s.notified, additional, <<>>)

saturating_sub(a, b) == IF a >= b THEN a - b ELSE 0

\* SlabRemove that never passes the notification on.
SlabRemoveNoPropagate(s, key, propagate) ==
    LET entry == s.listeners[key]
        prev == entry.prev
        next == entry.next
        l1 == IF prev = None THEN s.listeners
              ELSE [s.listeners EXCEPT ![prev].next = next]
        l2 == IF next = None THEN l1 ELSE [l1 EXCEPT ![next].prev = prev]
        state == entry.state
    IN  [slab |-> [listeners |-> [l2 EXCEPT ![key] = EmptyEntry(s.first_empty)],
                   head |-> IF prev = None THEN next ELSE s.head,
                   tail |-> IF next = None THEN prev ELSE s.tail,
                   start |-> IF s.start = key THEN next ELSE s.start,
                   notified |-> IF is_notified(state)
                                THEN saturating_sub(s.notified, 1) ELSE s.notified,
                   len |-> s.len - 1,
                   first_empty |-> key],
         state |-> state, woken |-> <<>>]

\* SlabRemove that leaves tail alone when the last listener is removed.
SlabRemoveKeepTail(s, key, propagate) ==
    LET entry == s.listeners[key]
        prev == entry.prev
        next == entry.next
        l1 == IF prev = None THEN s.listeners
              ELSE [s.listeners EXCEPT ![prev].next = next]
        l2 == IF next = None THEN l1 ELSE [l1 EXCEPT ![next].prev = prev]
        state == entry.state
        s1 == [listeners |-> [l2 EXCEPT ![key] = EmptyEntry(s.first_empty)],
               head |-> IF prev = None THEN next ELSE s.head,
               tail |-> s.tail,
               start |-> IF s.start = key THEN next ELSE s.start,
               notified |-> IF is_notified(state)
                            THEN saturating_sub(s.notified, 1) ELSE s.notified,
               len |-> s.len,
               first_empty |-> key]
        r == IF is_notified(state) /\ propagate /\ state.tag = "Notified"
             THEN SlabNotify(s1, 1, state.additional)
             ELSE [slab |-> s1, woken |-> <<>>]
    IN  [slab |-> [r.slab EXCEPT !.len = @ - 1], state |-> state, woken |-> r.woken]

\* SlabRemove that does not take a notified listener off the count.
SlabRemoveNoCount(s, key, propagate) ==
    LET entry == s.listeners[key]
        prev == entry.prev
        next == entry.next
        l1 == IF prev = None THEN s.listeners
              ELSE [s.listeners EXCEPT ![prev].next = next]
        l2 == IF next = None THEN l1 ELSE [l1 EXCEPT ![next].prev = prev]
        state == entry.state
        s1 == [listeners |-> [l2 EXCEPT ![key] = EmptyEntry(s.first_empty)],
               head |-> IF prev = None THEN next ELSE s.head,
               tail |-> IF next = None THEN prev ELSE s.tail,
               start |-> IF s.start = key THEN next ELSE s.start,
               notified |-> s.notified,
               len |-> s.len,
               first_empty |-> key]
        r == IF is_notified(state) /\ propagate /\ state.tag = "Notified"
             THEN SlabNotify(s1, 1, state.additional)
             ELSE [slab |-> s1, woken |-> <<>>]
    IN  [slab |-> [r.slab EXCEPT !.len = @ - 1], state |-> state, woken |-> r.woken]

\* SlabRemove that empties the slot without putting it on the free list.
SlabRemoveLeak(s, key, propagate) ==
    LET entry == s.listeners[key]
        prev == entry.prev
        next == entry.next
        l1 == IF prev = None THEN s.listeners
              ELSE [s.listeners EXCEPT ![prev].next = next]
        l2 == IF next = None THEN l1 ELSE [l1 EXCEPT ![next].prev = prev]
        state == entry.state
        s1 == [listeners |-> [l2 EXCEPT ![key] = EmptyEntry(s.first_empty)],
               head |-> IF prev = None THEN next ELSE s.head,
               tail |-> IF next = None THEN prev ELSE s.tail,
               start |-> IF s.start = key THEN next ELSE s.start,
               notified |-> IF is_notified(state)
                            THEN saturating_sub(s.notified, 1) ELSE s.notified,
               len |-> s.len,
               first_empty |-> s.first_empty]
        r == IF is_notified(state) /\ propagate /\ state.tag = "Notified"
             THEN SlabNotify(s1, 1, state.additional)
             ELSE [slab |-> s1, woken |-> <<>>]
    IN  [slab |-> [r.slab EXCEPT !.len = @ - 1], state |-> state, woken |-> r.woken]

\* ListenerSlab::remove.
SlabRemove(s, key, propagate) ==
    LET entry == s.listeners[key]
        prev == entry.prev
        next == entry.next
        l1 == IF prev = None THEN s.listeners
              ELSE [s.listeners EXCEPT ![prev].next = next]
        l2 == IF next = None THEN l1 ELSE [l1 EXCEPT ![next].prev = prev]
        state == entry.state
        s1 == [listeners |-> [l2 EXCEPT ![key] = EmptyEntry(s.first_empty)],
               head |-> IF prev = None THEN next ELSE s.head,
               tail |-> IF next = None THEN prev ELSE s.tail,
               start |-> IF s.start = key THEN next ELSE s.start,
               notified |-> IF is_notified(state)
                            THEN saturating_sub(s.notified, 1) ELSE s.notified,
               len |-> s.len,
               first_empty |-> key]
        r == IF is_notified(state) /\ propagate /\ state.tag = "Notified"
             THEN SlabNotify(s1, 1, state.additional)
             ELSE [slab |-> s1, woken |-> <<>>]
    IN  [slab |-> [r.slab EXCEPT !.len = @ - 1], state |-> state, woken |-> r.woken]

\* ------------------------------------------------------- Listener (handle)
NoHandle == [kind |-> "None"]
HasNode(key) == [kind |-> "HasNode", key |-> key]
Queued(id) == [kind |-> "Queued", tw |-> id]

\* SlabRegister that reports a notified listener without taking it out of the
\* slab.
SlabRegisterNoRemove(s, h, task) ==
    IF h.kind # "HasNode"
    THEN [slab |-> s, handle |-> h, ret |-> "None"]
    ELSE LET key == h.key
             st == s.listeners[key].state
         IN  IF is_notified(st)
             THEN [slab |-> [s EXCEPT !.listeners[key].state = NotifiedTaken],
                   handle |-> NoHandle, ret |-> "Some(true)"]
             ELSE [slab |-> [s EXCEPT !.listeners[key].state = TaskState(task)],
                   handle |-> h, ret |-> "Some(false)"]

\* SlabRegister that never replaces a task already registered on the listener.
SlabRegisterKeepTask(s, h, task) ==
    IF h.kind # "HasNode"
    THEN [slab |-> s, handle |-> h, ret |-> "None"]
    ELSE LET key == h.key
             st == s.listeners[key].state
         IN  IF is_notified(st)
             THEN [slab |-> SlabRemove([s EXCEPT !.listeners[key].state = NotifiedTaken],
                                       key, FALSE).slab,
                   handle |-> NoHandle, ret |-> "Some(true)"]
             ELSE IF st.tag = "Task"
             THEN [slab |-> [s EXCEPT !.listeners[key].state =
                                 TaskState(st.task)],
                   handle |-> h, ret |-> "Some(false)"]
             ELSE [slab |-> [s EXCEPT !.listeners[key].state = TaskState(task)],
                   handle |-> h, ret |-> "Some(false)"]

\* ListenerSlab::register; ret is the Option<bool> returned.
SlabRegister(s, h, task) ==
    IF h.kind # "HasNode"
    THEN [slab |-> s, handle |-> h, ret |-> "None"]
    ELSE LET key == h.key
             st == s.listeners[key].state
         IN  IF is_notified(st)
             THEN [slab |-> SlabRemove([s EXCEPT !.listeners[key].state = NotifiedTaken],
                                       key, FALSE).slab,
                   handle |-> NoHandle, ret |-> "Some(true)"]
             ELSE IF st.tag = "Task"
             THEN [slab |-> [s EXCEPT !.listeners[key].state =
                                 IF will_wake(task, st.task) THEN TaskState(st.task)
                                 ELSE TaskState(task)],
                   handle |-> h, ret |-> "Some(false)"]
             ELSE [slab |-> [s EXCEPT !.listeners[key].state = TaskState(task)],
                   handle |-> h, ret |-> "Some(false)"]


\* ------------------------------------------------- the intake queue (nodes)
InsertNode(id) == [kind |-> "Insert", tw |-> id]
RemoveNode(key, propagate) == [kind |-> "RemoveListener", listener |-> key, propagate |-> propagate]
NotifyNode(n, additional) == [kind |-> "Notify", count |-> n, additional |-> additional]
WaitingNode(task) == [kind |-> "Waiting", task |-> task]

\* Queue::push and Queue::pop: a stack, pushed and popped at its head.
QueuePush(q, node) == <<node>> \o q
QueuePopNode(q) == Head(q)
QueuePopRest(q) == Tail(q)

\* A fresh TaskWaiting: no key published, no task stored.
\* loaded and reg record the order of the two sides: loaded once the drainer has
\* read the task slot; reg says whether the last task stored on the record was
\* stored before that read ("early") or after it ("late").
NewTaskWaiting == [status |-> None, task |-> None, loaded |-> FALSE, reg |-> "no"]

\* ---------------------------------------------------------------- variables
VARIABLES
    slab,        \* the ListenerSlab inside the Mutex
    locked,      \* Mutex::locked
    queue,       \* List::queue
    notified,    \* Inner::notified, the counter readers load without the lock
    handle,      \* the callers' Option<Listener> handles
    tw,          \* the TaskWaiting records shared by handles and Insert nodes
    th,          \* per thread: where it is in the call it is running
    woken,       \* tasks whose wake() has been called since they were last registered
    wakeLocked,  \* whether some wake() was called by a thread holding the lock
    before,      \* pairs <<x, y>>: x's insert call returned before y's started
    acct,        \* the number of calls made; tallies of requests and deliveries (when acct.on)
    last,        \* the last method called on the slab directly, its arguments and results
    mtx,         \* per thread: where it is in Mutex::try_lock or with its MutexGuard
    cell         \* Mutex::value of a Mutex<i32>, and the increments made through guards

vars == <<slab, locked, queue, notified, handle, tw, th, woken, wakeLocked, before, acct, last,
         mtx, cell>>

\* Everything but the slab and the record of the last direct call.
innerVars == <<locked, queue, notified, handle, tw, th, woken, wakeLocked, before, acct,
              mtx, cell>>

\* Everything but the lock, its value and the threads' use of them.
listVars == <<slab, queue, notified, handle, tw, th, woken, wakeLocked, before, acct, last>>

Idle == [pc |-> "idle", op |-> "-", h |-> 0, n |-> 0, additional |-> FALSE,
         propagate |-> FALSE, tasks |-> <<>>, wakes |-> <<>>, cur |-> 0, key |-> 0,
         ret |-> [v |-> "-"]]

MtxIdle == [pc |-> "idle", spins |-> 0, tmp |-> 0, weak |-> 0, spur |-> 0, stay |-> FALSE,
            res |-> "-", seen |-> 0]

AcctOff == [on |-> FALSE, calls |-> 0, requested |-> 0, inserted |-> 0, delivered |-> 0,
            applied |-> 0, gone |-> 0, dropped |-> 0, consumed |-> 0, plain |-> FALSE,
            late |-> FALSE, mixed |-> FALSE, again |-> FALSE,
            blank |-> FALSE]

\* Inner::new (lib.rs): the counter of an Event without listeners reads as
\* "every listener is notified".
NotifiedNew == UsizeMax

InitCommon ==
    /\ slab = SlabNew
    /\ locked = FALSE
    /\ queue = <<>>
    /\ notified = NotifiedNew
    /\ handle = [h \in Handles |-> NoHandle]
    /\ tw = [i \in 1 .. MaxTW |-> NewTaskWaiting]
    /\ th = [t \in Threads |-> Idle]
    /\ woken = {}
    /\ wakeLocked = FALSE
    /\ before = {}
    /\ last = [op |-> "new"]
    /\ mtx = [t \in Threads |-> MtxIdle]
    /\ cell = [value |-> 0, writes |-> 0]

Init == InitCommon /\ acct = AcctOff

\* ------------------------------------------------------------------ helpers
SeqToSet(q) == {q[i] : i \in 1 .. Len(q)}

\* A handle is borrowed (&mut) by the call that is running on it.
Busy(h) == \E u \in Threads : th[u].pc # "idle" /\ th[u].h = h

Pushing == {u \in Threads : th[u].pc = "push"}

\* Bound of the model: the queue holds at most MaxQueue nodes.
QueueRoom == Len(queue) + Cardinality(Pushing) < MaxQueue

PendingInserts ==
    Cardinality({i \in 1 .. Len(queue) : queue[i].kind = "Insert"})
    + Cardinality({u \in Pushing : th[u].op = "insert"})

\* Bound of the model: the slab holds at most MaxSlots listeners.
SlabRoom == slab.len + PendingInserts < MaxSlots

\* Bound of the model: a run makes at most MaxCalls public calls.
MayCall == acct.calls < MaxCalls

\* Arc<TaskWaiting>: a record lives while a handle, a queued node or the node
\* being applied refers to it.
Referenced(id, hs, q, thr) ==
    \/ \E h \in Handles : hs[h] = Queued(id)
    \/ \E i \in 1 .. Len(q) : q[i] = InsertNode(id)
    \/ \E u \in Threads : thr[u].cur = id

Collect(twf, hs, q, thr) ==
    [i \in 1 .. MaxTW |-> IF Referenced(i, hs, q, thr) THEN twf[i] ELSE NewTaskWaiting]

FreshTw == CHOOSE i \in 1 .. MaxTW :
              /\ ~Referenced(i, handle, queue, th)
              /\ \A j \in 1 .. MaxTW : ~Referenced(j, handle, queue, th) => i <= j

\* Listeners that a step moved from not notified to notified.
Delivered(s, s2) ==
    Cardinality({k \in 1 .. Len(s.listeners) :
                    /\ IsListener(s, k) /\ IsListener(s2, k)
                    /\ ~is_notified(s.listeners[k].state)
                    /\ is_notified(s2.listeners[k].state)})

\* What a step applied to the slab, for the tallies.
NoOp == [kind |-> "none"]
InsertOp == [kind |-> "insert"]
NotifyOp(n, additional) == [kind |-> "notify", count |-> n, additional |-> additional]
RemoveOp(st) == [kind |-> "remove", state |-> st]
ConsumeOp == [kind |-> "consume"]
\* insert was called on a handle that was not empty.
AgainOp == [kind |-> "again"]
\* register was called on an empty handle.
BlankOp == [kind |-> "blank"]

\* The tallies after a step that started a call (call), requested req
\* notifications, returned ins listeners from insert, and applied op to the
\* slab, taking it from s to s2.
Tally(call, req, ins, op, s, s2) ==
    IF ~acct.on THEN [acct EXCEPT !.calls = @ + (IF call THEN 1 ELSE 0)]
    ELSE [calls |-> acct.calls + (IF call THEN 1 ELSE 0),
          on |-> TRUE,
          requested |-> acct.requested + req,
          inserted |-> acct.inserted + ins,
          delivered |-> acct.delivered + Delivered(s, s2),
          applied |-> acct.applied + (IF op.kind = "notify" THEN op.count ELSE 0),
          gone |-> acct.gone + (IF op.kind = "consume" THEN 1
                                ELSE IF op.kind = "remove" /\ is_notified(op.state) THEN 1
                                ELSE 0),
          dropped |-> acct.dropped + (IF op.kind = "remove" /\ ~is_notified(op.state) THEN 1
                                      ELSE 0),
          consumed |-> acct.consumed + (IF op.kind = "consume" THEN 1 ELSE 0),
          plain |-> acct.plain \/ (op.kind = "notify" /\ ~op.additional),
          late |-> acct.late \/ (op.kind = "insert" /\ acct.applied > 0),
          mixed |-> acct.mixed \/ (ins > 0 /\ acct.requested > 0),
          again |-> acct.again \/ op.kind = "again",
          blank |-> acct.blank \/ op.kind = "blank"]

\* The key of the slab entry a handle stands for, None while it has none.
KeyOf(h) ==
    IF handle[h].kind = "HasNode" THEN handle[h].key
    ELSE IF handle[h].kind = "Queued" THEN tw[handle[h].tw].status
    ELSE None

\* Handles whose insert call has returned and that still hold a listener.
Inserted == {x \in Handles : handle[x].kind # "None"
                /\ ~\E u \in Threads : th[u].pc # "idle" /\ th[u].h = x /\ th[u].op = "insert"}

Forget(rel, h) == {p \in rel : p[1] # h /\ p[2] # h}


\* Values returned by the calls.
RetUnit == [v |-> "()"]
RetNone == [v |-> "None"]
RetSome(x) == [v |-> "Some", x |-> x]

\* A call returns: the thread keeps only the value returned.
Return(ret) == [Idle EXCEPT !.ret = ret]

\* The values of propagate the callers pass (the tallied runs are those of
\* removals that propagate).
Propagates == IF acct.on THEN {TRUE} ELSE BOOLEAN

\* Mutex::try_lock, seen from the caller: the compare-exchange succeeds when
\* the lock is free; when it is held the bounded spin can run out.
TryLockOk == ~locked

\* Where a thread that holds the lock goes once the slab has been changed:
\* to the task.wake() calls of ListenerSlab::notify when the loop met tasks,
\* each a step of its own, else on to the drain.
AfterApply(tasks) == IF tasks = <<>> THEN "drop" ELSE "notify_wake"

\* One task.wake() of the loop of ListenerSlab::notify, called by the thread
\* that holds the lock; after the last one the drain goes on.
NotifyWake(t) ==
    /\ th[t].pc = "notify_wake"
    /\ woken' = woken \cup {Head(th[t].wakes)}
    /\ wakeLocked' = TRUE
    /\ th' = [th EXCEPT ![t].wakes = Tail(@), ![t].pc = AfterApply(Tail(th[t].wakes))]
    /\ UNCHANGED <<mtx, cell, last, slab, locked, queue, notified, handle, tw, before, acct>>

\* ------------------------------------------------------------ Inner::insert
\* InsertCall without the test for a handle that is already Some.
InsertCallAgain(t, h) ==
    /\ th[t].pc = "idle" /\ ~Busy(h) /\ MayCall
    /\ SlabRoom
    /\ before' = before \cup {<<x, h>> : x \in Inserted \ {h}}
    /\ IF TryLockOk
       THEN LET r == SlabInsert(slab, Created)
            IN  /\ locked' = TRUE
                /\ slab' = r.slab
                /\ handle' = [handle EXCEPT ![h] = HasNode(r.key)]
                /\ th' = [th EXCEPT ![t] = [Idle EXCEPT !.pc = "drop", !.op = "insert",
                                                        !.h = h, !.ret = RetUnit]]
                /\ acct' = Tally(TRUE, 0, 1, InsertOp, slab, r.slab)
                /\ UNCHANGED <<mtx, cell, last, queue, notified, tw, woken, wakeLocked>>
       ELSE /\ QueueRoom
            /\ th' = [th EXCEPT ![t] = [Idle EXCEPT !.pc = "push", !.op = "insert", !.h = h]]
            /\ acct' = Tally(TRUE, 0, 0, NoOp, slab, slab)
            /\ UNCHANGED <<mtx, cell, last, slab, locked, queue, notified, handle, tw, woken, wakeLocked>>

InsertCall(t, h) ==
    /\ th[t].pc = "idle" /\ ~Busy(h) /\ MayCall
    /\ IF handle[h].kind # "None"
       THEN \* Already inserted.
            /\ th' = [th EXCEPT ![t] = Return(RetUnit)]
            /\ acct' = Tally(TRUE, 0, 0, AgainOp, slab, slab)
            /\ UNCHANGED <<mtx, cell, last, slab, locked, queue, notified, handle, tw, woken, wakeLocked, before>>
       ELSE /\ SlabRoom
            /\ before' = before \cup {<<x, h>> : x \in Inserted \ {h}}
            /\ IF TryLockOk
               THEN LET r == SlabInsert(slab, Created)
                    IN  /\ locked' = TRUE
                        /\ slab' = r.slab
                        /\ handle' = [handle EXCEPT ![h] = HasNode(r.key)]
                        /\ th' = [th EXCEPT ![t] = [Idle EXCEPT !.pc = "drop", !.op = "insert",
                                                                !.h = h, !.ret = RetUnit]]
                        /\ acct' = Tally(TRUE, 0, 1, InsertOp, slab, r.slab)
                        /\ UNCHANGED <<mtx, cell, last, queue, notified, tw, woken, wakeLocked>>
               ELSE /\ QueueRoom
                    /\ th' = [th EXCEPT ![t] = [Idle EXCEPT !.pc = "push", !.op = "insert", !.h = h]]
                    /\ acct' = Tally(TRUE, 0, 0, NoOp, slab, slab)
                    /\ UNCHANGED <<mtx, cell, last, slab, locked, queue, notified, handle, tw, woken, wakeLocked>>

\* The slow path of insert: Node::listener(), push, *listener = Queued.
InsertPush(t) ==
    /\ th[t].pc = "push" /\ th[t].op = "insert"
    /\ LET id == FreshTw
       IN  /\ queue' = QueuePush(queue, InsertNode(id))
           /\ handle' = [handle EXCEPT ![th[t].h] = Queued(id)]
           /\ tw' = [tw EXCEPT ![id] = NewTaskWaiting]
    /\ th' = [th EXCEPT ![t] = Return(RetUnit)]
    /\ acct' = Tally(FALSE, 0, 1, NoOp, slab, slab)
    /\ UNCHANGED <<mtx, cell, last, slab, locked, notified, woken, wakeLocked, before>>

\* RemoveCall that does not take the Listener out of the caller's handle.
RemoveCallKeepHandle(t, h, propagate) ==
    /\ th[t].pc = "idle" /\ ~Busy(h) /\ MayCall
    /\ handle' = handle
    /\ before' = Forget(before, h)
    /\ IF handle[h].kind = "HasNode"
       THEN IF TryLockOk
            THEN LET r == SlabRemove(slab, handle[h].key, propagate)
                 IN  /\ locked' = TRUE
                     /\ slab' = r.slab
                     /\ th' = [th EXCEPT ![t] = [Idle EXCEPT !.pc = AfterApply(r.woken),
                                                             !.op = "remove", !.h = h,
                                                             !.wakes = r.woken,
                                                             !.ret = RetSome(r.state)]]
                     /\ acct' = Tally(TRUE, 0, 0, RemoveOp(r.state), slab, r.slab)
                     /\ UNCHANGED <<mtx, cell, last, queue, notified, tw, woken, wakeLocked>>
            ELSE /\ QueueRoom
                 /\ th' = [th EXCEPT ![t] = [Idle EXCEPT !.pc = "push", !.op = "remove", !.h = h,
                                                         !.key = handle[h].key,
                                                         !.propagate = propagate]]
                 /\ acct' = Tally(TRUE, 0, 0, NoOp, slab, slab)
                 /\ UNCHANGED <<mtx, cell, last, slab, locked, queue, notified, tw, woken, wakeLocked>>
       ELSE \* Queued: "This won't be added after we drop the lock."  None: nothing.
            /\ th' = [th EXCEPT ![t] = Return(RetNone)]
            /\ tw' = Collect(tw, handle', queue, th')
            /\ acct' = Tally(TRUE, 0, 0, NoOp, slab, slab)
            /\ UNCHANGED <<mtx, cell, last, slab, locked, queue, notified, woken, wakeLocked>>

\* ------------------------------------------------------------ Inner::remove
RemoveCall(t, h, propagate) ==
    /\ th[t].pc = "idle" /\ ~Busy(h) /\ MayCall
    /\ handle' = [handle EXCEPT ![h] = NoHandle]
    /\ before' = Forget(before, h)
    /\ IF handle[h].kind = "HasNode"
       THEN IF TryLockOk
            THEN LET r == SlabRemove(slab, handle[h].key, propagate)
                 IN  /\ locked' = TRUE
                     /\ slab' = r.slab
                     /\ th' = [th EXCEPT ![t] = [Idle EXCEPT !.pc = AfterApply(r.woken),
                                                             !.op = "remove", !.h = h,
                                                             !.wakes = r.woken,
                                                             !.ret = RetSome(r.state)]]
                     /\ acct' = Tally(TRUE, 0, 0, RemoveOp(r.state), slab, r.slab)
                     /\ UNCHANGED <<mtx, cell, last, queue, notified, tw, woken, wakeLocked>>
            ELSE /\ QueueRoom
                 /\ th' = [th EXCEPT ![t] = [Idle EXCEPT !.pc = "push", !.op = "remove", !.h = h,
                                                         !.key = handle[h].key,
                                                         !.propagate = propagate]]
                 /\ acct' = Tally(TRUE, 0, 0, NoOp, slab, slab)
                 /\ UNCHANGED <<mtx, cell, last, slab, locked, queue, notified, tw, woken, wakeLocked>>
       ELSE \* Queued: "This won't be added after we drop the lock."  None: nothing.
            /\ th' = [th EXCEPT ![t] = Return(RetNone)]
            /\ tw' = Collect(tw, handle', queue, th')
            /\ acct' = Tally(TRUE, 0, 0, NoOp, slab, slab)
            /\ UNCHANGED <<mtx, cell, last, slab, locked, queue, notified, woken, wakeLocked>>

\* RemovePush that returns a state although the removal is only queued.
RemovePushCreated(t) ==
    /\ th[t].pc = "push" /\ th[t].op = "remove"
    /\ queue' = QueuePush(queue, RemoveNode(th[t].key, th[t].propagate))
    /\ th' = [th EXCEPT ![t] = Return(RetSome(Created))]
    /\ UNCHANGED <<mtx, cell, last, slab, locked, notified, handle, tw, woken, wakeLocked, before, acct>>

\* The slow path of remove: the RemoveListener node is pushed, None returned.
RemovePush(t) ==
    /\ th[t].pc = "push" /\ th[t].op = "remove"
    /\ queue' = QueuePush(queue, RemoveNode(th[t].key, th[t].propagate))
    /\ th' = [th EXCEPT ![t] = Return(RetNone)]
    /\ UNCHANGED <<mtx, cell, last, slab, locked, notified, handle, tw, woken, wakeLocked, before, acct>>

\* ------------------------------------------------------------ Inner::notify
NotifyCall(t, n, additional) ==
    /\ th[t].pc = "idle" /\ MayCall
    /\ IF TryLockOk
       THEN LET r == SlabNotify(slab, n, additional)
            IN  /\ locked' = TRUE
                /\ slab' = r.slab
                /\ th' = [th EXCEPT ![t] = [Idle EXCEPT !.pc = AfterApply(r.woken),
                                                        !.op = "notify", !.wakes = r.woken,
                                                        !.ret = RetUnit]]
                /\ acct' = Tally(TRUE, n, 0, NotifyOp(n, additional), slab, r.slab)
                /\ UNCHANGED <<mtx, cell, last, queue, notified, handle, tw, woken, wakeLocked,
                               before>>
       ELSE /\ QueueRoom
            /\ th' = [th EXCEPT ![t] = [Idle EXCEPT !.pc = "push", !.op = "notify", !.n = n,
                                                    !.additional = additional]]
            /\ acct' = Tally(TRUE, n, 0, NoOp, slab, slab)
            /\ UNCHANGED <<mtx, cell, last, slab, locked, queue, notified, handle, tw, woken, wakeLocked, before>>

NotifyPush(t) ==
    /\ th[t].pc = "push" /\ th[t].op = "notify"
    /\ queue' = QueuePush(queue, NotifyNode(th[t].n, th[t].additional))
    /\ th' = [th EXCEPT ![t] = Return(RetUnit)]
    /\ UNCHANGED <<mtx, cell, last, slab, locked, notified, handle, tw, woken, wakeLocked, before, acct>>


\* ---------------------------------------------------------- Inner::register
\* The handle as the loop of Inner::register sees it once a published key
\* has been picked up from the TaskWaiting.
Upgraded(h) ==
    IF handle[h].kind = "Queued" /\ tw[handle[h].tw].status # None
    THEN HasNode(tw[handle[h].tw].status)
    ELSE handle[h]

\* RegisterCall that treats an empty handle like a failed try_lock: the task
\* is pushed as a Waiting node.
RegisterCallQueueNone(t, h) ==
    /\ th[t].pc = "idle" /\ ~Busy(h) /\ MayCall
    /\ IF Upgraded(h).kind = "HasNode"
       THEN IF TryLockOk
            THEN LET r == SlabRegister(slab, Upgraded(h), h)
                     consumed == r.ret = "Some(true)"
                 IN  /\ locked' = TRUE
                     /\ slab' = r.slab
                     /\ handle' = [handle EXCEPT ![h] = r.handle]
                     /\ th' = [th EXCEPT ![t] = [Idle EXCEPT !.pc = "drop", !.op = "register",
                                                             !.h = h, !.ret = RetSome(consumed)]]
                     /\ tw' = Collect(tw, handle', queue, th')
                     /\ before' = IF consumed THEN Forget(before, h) ELSE before
                     /\ acct' = Tally(TRUE, 0, 0, IF consumed THEN ConsumeOp ELSE NoOp, slab, r.slab)
                     /\ woken' = woken \ {h}
                     /\ UNCHANGED <<mtx, cell, last, queue, notified, wakeLocked>>
            ELSE /\ QueueRoom
                 /\ handle' = [handle EXCEPT ![h] = Upgraded(h)]
                 /\ th' = [th EXCEPT ![t] = [Idle EXCEPT !.pc = "push", !.op = "register", !.h = h]]
                 /\ tw' = Collect(tw, handle', queue, th')
                 /\ acct' = Tally(TRUE, 0, 0, NoOp, slab, slab)
                 /\ woken' = woken \ {h}
                 /\ UNCHANGED <<mtx, cell, last, slab, locked, queue, notified, wakeLocked, before>>
       ELSE IF handle[h].kind = "Queued"
       THEN \* status() is None: the task is stored in a second step.
            /\ th' = [th EXCEPT ![t] = [Idle EXCEPT !.pc = "store", !.op = "register", !.h = h]]
            /\ acct' = Tally(TRUE, 0, 0, NoOp, slab, slab)
            /\ woken' = woken \ {h}
            /\ UNCHANGED <<mtx, cell, last, slab, locked, queue, notified, handle, tw, wakeLocked, before>>
       ELSE /\ QueueRoom
            /\ th' = [th EXCEPT ![t] = [Idle EXCEPT !.pc = "push", !.op = "register", !.h = h]]
            /\ acct' = Tally(TRUE, 0, 0, NoOp, slab, slab)
            /\ UNCHANGED <<mtx, cell, last, slab, locked, queue, notified, handle, tw, woken, wakeLocked, before>>

RegisterCall(t, h) ==
    /\ th[t].pc = "idle" /\ ~Busy(h) /\ MayCall
    /\ IF Upgraded(h).kind = "HasNode"
       THEN IF TryLockOk
            THEN LET r == SlabRegister(slab, Upgraded(h), h)
                     consumed == r.ret = "Some(true)"
                 IN  /\ locked' = TRUE
                     /\ slab' = r.slab
                     /\ handle' = [handle EXCEPT ![h] = r.handle]
                     /\ th' = [th EXCEPT ![t] = [Idle EXCEPT !.pc = "drop", !.op = "register",
                                                             !.h = h, !.ret = RetSome(consumed)]]
                     /\ tw' = Collect(tw, handle', queue, th')
                     /\ before' = IF consumed THEN Forget(before, h) ELSE before
                     /\ acct' = Tally(TRUE, 0, 0, IF consumed THEN ConsumeOp ELSE NoOp, slab, r.slab)
                     /\ woken' = woken \ {h}
                     /\ UNCHANGED <<mtx, cell, last, queue, notified, wakeLocked>>
            ELSE /\ QueueRoom
                 /\ handle' = [handle EXCEPT ![h] = Upgraded(h)]
                 /\ th' = [th EXCEPT ![t] = [Idle EXCEPT !.pc = "push", !.op = "register", !.h = h]]
                 /\ tw' = Collect(tw, handle', queue, th')
                 /\ acct' = Tally(TRUE, 0, 0, NoOp, slab, slab)
                 /\ woken' = woken \ {h}
                 /\ UNCHANGED <<mtx, cell, last, slab, locked, queue, notified, wakeLocked, before>>
       ELSE IF handle[h].kind = "Queued"
       THEN \* status() is None: the task is stored in a second step.
            /\ th' = [th EXCEPT ![t] = [Idle EXCEPT !.pc = "store", !.op = "register", !.h = h]]
            /\ acct' = Tally(TRUE, 0, 0, NoOp, slab, slab)
            /\ woken' = woken \ {h}
            /\ UNCHANGED <<mtx, cell, last, slab, locked, queue, notified, handle, tw, wakeLocked, before>>
       ELSE /\ th' = [th EXCEPT ![t] = Return(RetNone)]
            /\ acct' = Tally(TRUE, 0, 0, BlankOp, slab, slab)
            /\ UNCHANGED <<mtx, cell, last, slab, locked, queue, notified, handle, tw, woken, wakeLocked, before>>

\* RegisterPush that returns Some(false) without pushing the Waiting node.
RegisterPushNoNode(t) ==
    /\ th[t].pc = "push" /\ th[t].op = "register"
    /\ th' = [th EXCEPT ![t] = Return(RetSome(FALSE))]
    /\ UNCHANGED <<mtx, cell, last, slab, locked, queue, notified, handle, tw, woken, wakeLocked, before, acct>>

\* The lock was not taken: "Wait for the lock."
RegisterPush(t) ==
    /\ th[t].pc = "push" /\ th[t].op = "register"
    /\ queue' = QueuePush(queue, WaitingNode(th[t].h))
    /\ th' = [th EXCEPT ![t] = Return(RetSome(FALSE))]
    /\ UNCHANGED <<mtx, cell, last, slab, locked, notified, handle, tw, woken, wakeLocked, before, acct>>

\* TaskWaiting::register: the task is installed, replacing any prior one.
TaskWaitingRegister(rec, task) == [rec EXCEPT !.task = task]

\* Whether a task stored now comes before or after the drainer's read.
Stamp(rec) == [rec EXCEPT !.reg = IF rec.loaded THEN "late" ELSE "early"]

\* RegisterStore that returns None without storing the task.
RegisterStoreForget(t) ==
    /\ th[t].pc = "store"
    /\ tw' = [tw EXCEPT ![handle[th[t].h].tw] = Stamp(@)]
    /\ th' = [th EXCEPT ![t] = Return(RetNone)]
    /\ UNCHANGED <<mtx, cell, last, slab, locked, queue, notified, handle, woken, wakeLocked, before, acct>>

\* "We're still queued, so register the task."
RegisterStore(t) ==
    /\ th[t].pc = "store"
    /\ tw' = [tw EXCEPT ![handle[th[t].h].tw] = Stamp(TaskWaitingRegister(@, th[t].h))]
    /\ th' = [th EXCEPT ![t] = Return(RetNone)]
    /\ UNCHANGED <<mtx, cell, last, slab, locked, queue, notified, handle, woken, wakeLocked, before, acct>>

\* ---------------------------------------------------------- ListGuard::drop
\* Node::apply for the nodes applied in one step: the slab after it, the tasks
\* woken while applying it, and the task returned for the wake after unlock.
NodeApply(node, s) ==
    IF node.kind = "Notify"
    THEN LET r == SlabNotify(s, node.count, node.additional)
         IN  [slab |-> r.slab, woken |-> r.woken, task |-> None,
              op |-> NotifyOp(node.count, node.additional)]
    ELSE IF node.kind = "RemoveListener"
    THEN LET r == SlabRemove(s, node.listener, node.propagate)
         IN  [slab |-> r.slab, woken |-> r.woken, task |-> None, op |-> RemoveOp(r.state)]
    ELSE [slab |-> s, woken |-> <<>>, task |-> node.task, op |-> NoOp]

\* PublishedNotified without the "every listener is notified" value.
PublishedNotifiedExact(s) == s.notified

\* The counter published before the lock is released.
PublishedNotified(s) == IF s.notified < s.len THEN s.notified ELSE UsizeMax

\* One turn of the drain: pop a node and apply it, or find the queue empty
\* and store the counter.
DrainStep(t) ==
    /\ th[t].pc = "drop"
    /\ IF queue = <<>>
       THEN /\ notified' = PublishedNotified(slab)
            /\ th' = [th EXCEPT ![t].pc = "unlock"]
            /\ UNCHANGED <<mtx, cell, last, slab, locked, queue, handle, tw, woken, wakeLocked, before, acct>>
       ELSE LET node == QueuePopNode(queue)
            IN  /\ queue' = QueuePopRest(queue)
                /\ IF node.kind = "Insert"
                   THEN LET r == SlabInsert(slab, Created)
                        IN  /\ slab' = r.slab
                            /\ th' = [th EXCEPT ![t].pc = "publish", ![t].cur = node.tw,
                                                ![t].key = r.key]
                            /\ acct' = Tally(FALSE, 0, 0, InsertOp, slab, r.slab)
                   ELSE LET r == NodeApply(node, slab)
                        IN  /\ slab' = r.slab
                            /\ th' = [th EXCEPT ![t].pc = AfterApply(r.woken),
                                                ![t].wakes = r.woken,
                                                ![t].tasks =
                                        IF r.task = None THEN @ ELSE Append(@, r.task)]
                            /\ acct' = Tally(FALSE, 0, 0, r.op, slab, r.slab)
                /\ UNCHANGED <<mtx, cell, last, locked, notified, handle, tw, woken, wakeLocked,
                               before>>

\* Applying an Insert node, second step: the key is published.
DrainPublish(t) ==
    /\ th[t].pc = "publish"
    /\ tw' = [tw EXCEPT ![th[t].cur].status = th[t].key]
    /\ th' = [th EXCEPT ![t].pc = "load"]
    /\ UNCHANGED <<mtx, cell, last, slab, locked, queue, notified, handle, woken, wakeLocked, before, acct>>

\* Applying an Insert node, third step: the stored task is taken, to be woken
\* after the unlock.
DrainLoad(t) ==
    /\ th[t].pc = "load"
    /\ LET id == th[t].cur
           task == tw[id].task
       IN  /\ th' = [th EXCEPT ![t].pc = "drop", ![t].cur = 0, ![t].key = 0,
                               ![t].tasks = IF task = None THEN @ ELSE Append(@, task)]
           /\ tw' = Collect([tw EXCEPT ![id].task = None, ![id].loaded = TRUE],
                            handle, queue, th')
    /\ UNCHANGED <<mtx, cell, last, slab, locked, queue, notified, handle, woken, wakeLocked, before, acct>>

\* drop(list): MutexGuard::drop stores false.
Unlock(t) ==
    /\ th[t].pc = "unlock"
    /\ locked' = FALSE
    /\ th' = [th EXCEPT ![t] = IF th[t].tasks = <<>> THEN Return(th[t].ret)
                               ELSE [th[t] EXCEPT !.pc = "wake"]]
    /\ UNCHANGED <<mtx, cell, last, slab, queue, notified, handle, tw, woken, wakeLocked, before, acct>>

\* "Wakeup all tasks.": one task.wake() of the loop; after the last one the
\* call returns.
Wake(t) ==
    /\ th[t].pc = "wake"
    /\ woken' = woken \cup {Head(th[t].tasks)}
    /\ th' = [th EXCEPT ![t] = IF Tail(th[t].tasks) = <<>> THEN Return(th[t].ret)
                               ELSE [th[t] EXCEPT !.tasks = Tail(@)]]
    /\ UNCHANGED <<mtx, cell, last, slab, locked, queue, notified, handle, tw, wakeLocked, before, acct>>

\* ------------------------------------------------------------ specification
Next ==
    \E t \in Threads :
        \/ \E h \in Handles : InsertCall(t, h)
        \/ InsertPush(t)
        \/ \E h \in Handles, propagate \in Propagates : RemoveCall(t, h, propagate)
        \/ RemovePush(t)
        \/ \E n \in 1 .. MaxN, additional \in BOOLEAN : NotifyCall(t, n, additional)
        \/ NotifyPush(t)
        \/ \E h \in Handles : RegisterCall(t, h)
        \/ RegisterPush(t)
        \/ RegisterStore(t)
        \/ NotifyWake(t)
        \/ DrainStep(t)
        \/ DrainPublish(t)
        \/ DrainLoad(t)
        \/ Unlock(t)
        \/ Wake(t)

Spec == Init /\ [][Next]_vars

\* The tallied runs: the same program, with the tallies kept.
InitTallied == InitCommon /\ acct = [AcctOff EXCEPT !.on = TRUE]

SpecTallied == InitTallied /\ [][Next]_vars


\* ------------------------------------------- the slab's methods, called directly
\* As the unit tests do: a ListenerSlab owned by one caller, its methods called
\* in any order with any arguments their contracts allow.  last records the
\* call: its arguments, the slab before it (pre), what it returned and the
\* tasks it woke.
Tasks == 1 .. NTasks

LiveKeys(s) == {k \in 1 .. Len(s.listeners) : s.listeners[k].kind = "Listener"}

SlabInsertCall ==
    /\ slab.len < SlabCap
    /\ LET r == SlabInsert(slab, Created)
       IN  /\ slab' = r.slab
           /\ last' = [op |-> "insert", pre |-> slab, key |-> r.key]
    /\ UNCHANGED innerVars

SlabRemoveCall(key, propagate) ==
    /\ key \in LiveKeys(slab)
    /\ LET r == SlabRemove(slab, key, propagate)
       IN  /\ slab' = r.slab
           /\ last' = [op |-> "remove", pre |-> slab, key |-> key, propagate |-> propagate,
                       state |-> r.state, woken |-> r.woken]
    /\ UNCHANGED innerVars

SlabNotifyCall(n, additional) ==
    /\ LET r == SlabNotify(slab, n, additional)
       IN  /\ slab' = r.slab
           /\ last' = [op |-> "notify", pre |-> slab, n |-> n, additional |-> additional,
                       woken |-> r.woken]
    /\ UNCHANGED innerVars

SlabRegisterCall(key, task) ==
    /\ key \in LiveKeys(slab)
    /\ LET r == SlabRegister(slab, HasNode(key), task)
       IN  /\ slab' = r.slab
           /\ last' = [op |-> "register", pre |-> slab, key |-> key, task |-> task,
                       handle |-> r.handle, ret |-> r.ret]
    /\ UNCHANGED innerVars

NextSlab ==
    \/ SlabInsertCall
    \/ \E key \in 1 .. SlabCap, propagate \in BOOLEAN : SlabRemoveCall(key, propagate)
    \/ \E n \in 0 .. SlabMaxN, additional \in BOOLEAN : SlabNotifyCall(n, additional)
    \/ \E key \in 1 .. SlabCap, task \in Tasks : SlabRegisterCall(key, task)

SpecSlab == Init /\ [][NextSlab]_vars


\* ------------------------------------------------- the Mutex, called directly
\* As smoke_mutex does, from several threads: a Mutex<i32> whose threads call
\* try_lock, add one to the value through the guard, and drop the guard.
\* The steps are the accesses to `locked` and to the value.  Of a thread,
\* mtx records: pc, where it is (idle; weak: before the compare_exchange_weak
\* of try_lock_slow; load: before the load of its inner loop; held: owning a
\* guard; held_rw: owning a guard, the value read for `*guard += 1`); spins;
\* tmp, the value read; and for the claims weak, the compare_exchange_weak
\* attempts of the call so far; spur, those that failed spuriously; stay,
\* whether the lock has stayed held since the call began; seen, the loads of
\* the call that saw the lock held; res, what the last call returned (seen,
\* weak and stay are kept with "none").

\* A call returns with res; the thread is idle again.
MutexReturn(rec, res, seen) ==
    IF res = "guard" THEN [MtxIdle EXCEPT !.pc = "held", !.res = res]
    ELSE [MtxIdle EXCEPT !.res = res, !.seen = seen, !.weak = rec.weak, !.stay = rec.stay]

\* TryLock whose compare-exchange stores true whatever it finds.
TryLockBlind(t) ==
    /\ mtx[t].pc = "idle"
    /\ locked' = TRUE
    /\ mtx' = [mtx EXCEPT ![t] = MutexReturn([MtxIdle EXCEPT !.stay = ~locked], "guard", 0)]
    /\ UNCHANGED cell
    /\ UNCHANGED listVars

\* Mutex::try_lock: compare_exchange(false, true); try_lock_slow if it fails.
TryLock(t) ==
    /\ mtx[t].pc = "idle"
    /\ IF ~locked
       THEN /\ locked' = TRUE
            /\ mtx' = [mtx EXCEPT ![t] = MutexReturn([MtxIdle EXCEPT !.stay = FALSE], "guard", 0)]
       ELSE /\ mtx' = [mtx EXCEPT ![t] = [MtxIdle EXCEPT !.pc = "weak", !.spins = Spins,
                                                         !.stay = TRUE]]
            /\ UNCHANGED locked
    /\ UNCHANGED cell
    /\ UNCHANGED listVars

\* try_lock_slow: compare_exchange_weak(false, true), which may fail although
\* the lock is free (fail).
TryLockSlowCas(t, fail) ==
    /\ mtx[t].pc = "weak"
    /\ fail => (~locked /\ mtx[t].spur < MaxSpurious)
    /\ LET tried == [mtx[t] EXCEPT !.weak = IF @ < WeakCap THEN @ + 1 ELSE @]
       IN  IF ~locked /\ ~fail
           THEN /\ locked' = TRUE
                /\ mtx' = [mtx EXCEPT ![t] = MutexReturn(tried, "guard", 0)]
           ELSE /\ mtx' = [mtx EXCEPT ![t] = [tried EXCEPT !.pc = "load",
                                                          !.spur = IF fail THEN @ + 1 ELSE @]]
                /\ UNCHANGED locked
    /\ UNCHANGED cell
    /\ UNCHANGED listVars

\* TryLockSlowLoad that gives up at the first load that sees the lock held.
TryLockSlowLoadEager(t) ==
    /\ mtx[t].pc = "load"
    /\ mtx' = [mtx EXCEPT ![t] =
                 IF locked
                 THEN MutexReturn(mtx[t], "none", mtx[t].seen + 1)
                 ELSE [mtx[t] EXCEPT !.pc = "weak"]]
    /\ UNCHANGED <<locked, cell>>
    /\ UNCHANGED listVars

\* try_lock_slow: "while self.locked.load(Relaxed) { spins = spins.checked_sub(1)?; }"
TryLockSlowLoad(t) ==
    /\ mtx[t].pc = "load"
    /\ mtx' = [mtx EXCEPT ![t] =
                 IF locked
                 THEN IF mtx[t].spins = 0
                      THEN MutexReturn(mtx[t], "none", mtx[t].seen + 1)
                      ELSE [mtx[t] EXCEPT !.spins = @ - 1, !.seen = @ + 1]
                 ELSE [mtx[t] EXCEPT !.pc = "weak"]]
    /\ UNCHANGED <<locked, cell>>
    /\ UNCHANGED listVars

\* "*guard += 1", the read (DerefMut).
GuardRead(t) ==
    /\ mtx[t].pc = "held" /\ cell.writes < MaxWrites
    /\ mtx' = [mtx EXCEPT ![t].pc = "held_rw", ![t].tmp = cell.value]
    /\ UNCHANGED <<locked, cell>>
    /\ UNCHANGED listVars

\* "*guard += 1", the write.
GuardWrite(t) ==
    /\ mtx[t].pc = "held_rw"
    /\ cell' = [value |-> mtx[t].tmp + 1, writes |-> cell.writes + 1]
    /\ mtx' = [mtx EXCEPT ![t].pc = "held", ![t].tmp = 0]
    /\ UNCHANGED locked
    /\ UNCHANGED listVars

\* Threads in try_lock_slow see that the lock did not stay held.
Released(m, t) ==
    [u \in Threads |-> IF u # t /\ m[u].pc \in {"weak", "load"}
                       THEN [m[u] EXCEPT !.stay = FALSE] ELSE m[u]]

\* MutexGuard::drop that leaves the lock held.
GuardDropKeep(t) ==
    /\ mtx[t].pc = "held"
    /\ mtx' = [mtx EXCEPT ![t] = [MtxIdle EXCEPT !.res = "dropped"]]
    /\ UNCHANGED <<locked, cell>>
    /\ UNCHANGED listVars

\* <MutexGuard as Drop>::drop: locked.store(false, Release).
GuardDrop(t) ==
    /\ mtx[t].pc = "held"
    /\ locked' = FALSE
    /\ mtx' = Released([mtx EXCEPT ![t] = [MtxIdle EXCEPT !.res = "dropped"]], t)
    /\ UNCHANGED cell
    /\ UNCHANGED listVars

MutexStep(t) ==
    \/ TryLock(t)
    \/ \E fail \in BOOLEAN : TryLockSlowCas(t, fail)
    \/ TryLockSlowLoad(t)
    \/ GuardRead(t)
    \/ GuardWrite(t)
    \/ GuardDrop(t)

NextMutex == \E t \in Threads : MutexStep(t)

SpecMutex == Init /\ [][NextMutex]_vars

\* The threads are scheduled fairly: one that can take a step takes one.
SpecMutexFair == SpecMutex /\ \A t \in Threads : WF_vars(MutexStep(t))


\* ==================================================================== claims
Min(a, b) == IF a <= b THEN a ELSE b
Max(a, b) == IF a >= b THEN a ELSE b

\* The listeners of the chain, from head along next.
RECURSIVE ChainFrom(_, _, _)
ChainFrom(s, k, fuel) ==
    IF k = None \/ fuel = 0 THEN <<>>
    ELSE <<k>> \o ChainFrom(s, s.listeners[k].next, fuel - 1)

Chain(s) == ChainFrom(s, s.head, Len(s.listeners))

\* The place of key in the chain, 0 when it is not in it.
Pos(s, key) ==
    LET c == Chain(s)
    IN  IF \E i \in 1 .. Len(c) : c[i] = key
        THEN CHOOSE i \in 1 .. Len(c) : c[i] = key
        ELSE 0

StateOf(s, key) == s.listeners[key].state

RemoveAt(c, i) == [j \in 1 .. Len(c) - 1 |-> IF j < i THEN c[j] ELSE c[j + 1]]

\* No listener is notified while an earlier one of the chain is not.
NotifiedPrefix(s) ==
    LET c == Chain(s)
    IN  \A i, j \in 1 .. Len(c) :
            (i < j /\ is_notified(StateOf(s, c[j]))) => is_notified(StateOf(s, c[i]))

AllIdle == \A t \in Threads : th[t].pc = "idle"

\* Every call has returned and nothing is left in the queue.
Quiescent == AllIdle /\ queue = <<>>

\* -------------------------------------------------------------------- C1
\* C1 (as claimed): when x's insert call returned before y's insert call
\* started, x precedes y in the chain once both are in the slab, and y is not
\* notified while x is not.
C1_InsertCallOrder ==
    \A p \in before :
        LET kx == KeyOf(p[1])
            ky == KeyOf(p[2])
        IN  (kx # None /\ ky # None) =>
                /\ Pos(slab, kx) < Pos(slab, ky)
                /\ is_notified(StateOf(slab, ky)) => is_notified(StateOf(slab, kx))

\* C1 (amended): listeners are notified in the order in which their inserts
\* were applied to the slab (at the call on the fast path, at the drain that
\* pops the Insert node on the slow path): every applied insert appends at the
\* tail of the chain, every other step keeps the order of the listeners that
\* stay, and no listener is notified while an earlier one is in the chain and
\* not notified.
C1_AppliedOrder ==
    [][LET c == Chain(slab)
           c2 == Chain(slab')
       IN  /\ IF slab'.len = slab.len + 1
              THEN Len(c2) = Len(c) + 1 /\ c2 = Append(c, c2[Len(c2)])
              ELSE c2 = c \/ \E i \in 1 .. Len(c) : c2 = RemoveAt(c, i)
           /\ NotifiedPrefix(slab')]_vars

\* A listener whose insert call returned first, but was queued, sits behind
\* one inserted later on the fast path, which is notified before it.
C1_Witness ==
    \E p \in before :
        LET kx == KeyOf(p[1])
            ky == KeyOf(p[2])
        IN  /\ kx # None /\ ky # None
            /\ Pos(slab, ky) < Pos(slab, kx)
            /\ is_notified(StateOf(slab, ky))
            /\ ~is_notified(StateOf(slab, kx))

\* -------------------------------------------------------------------- C2
\* C2 (as claimed, read in its favour: every insert call returned before the
\* first notification was requested, and listeners removed before they were
\* notified are not counted): once every call has returned and the queue is
\* drained, the listeners ever notified are at least min(notifications
\* requested, listeners inserted).
C2_AtLeastMin ==
    (acct.on /\ Quiescent /\ ~acct.mixed) =>
        acct.delivered >= Min(acct.requested, acct.inserted - acct.dropped)

\* C2 (amended): with additional notifications, propagating removals and
\* every listener in the slab when the first notification is applied, at
\* every moment the listeners ever notified are at least min(notifications
\* applied, listeners inserted and not removed unnotified), and the listeners
\* holding a notification are exactly min(notifications applied and not
\* consumed by register, listeners in the slab): a notification absorbed by a
\* removed listener passes to the next one.
C2_Redelivered ==
    (acct.on /\ ~acct.plain /\ ~acct.late) =>
        /\ acct.delivered >= Min(acct.applied, slab.len + acct.gone)
        /\ slab.notified = Min(acct.applied - acct.consumed, slab.len)

\* A notified listener was removed and its notification went to another one.
C2_Witness ==
    /\ acct.on /\ Quiescent /\ ~acct.plain /\ ~acct.late
    /\ acct.gone = 1 /\ acct.consumed = 0 /\ acct.applied = 1
    /\ acct.delivered = 2 /\ slab.notified = 1

\* -------------------------------------------------------------------- C3
\* C3: a task pushed as a Waiting node by a register that could not take the
\* lock is woken by the calls in progress: when every call has returned, no
\* Waiting node is left in the queue.
C3_WaitingWoken ==
    AllIdle => \A i \in 1 .. Len(queue) : queue[i].kind # "Waiting"

\* -------------------------------------------------------------------- C4
\* C4 (as claimed): a task that register stored on the TaskWaiting of a queued
\* insert, returning None, is woken once the drainer has applied the Insert
\* node, wherever the store falls among the drainer's steps.
C4_StoredTaskWoken ==
    \A h \in Handles :
        (/\ handle[h].kind = "Queued"
         /\ tw[handle[h].tw].reg # "no"
         /\ tw[handle[h].tw].loaded)
        => (h \in woken \/ \E t \in Threads : h \in SeqToSet(th[t].tasks))

\* C4 (amended): the task is woken by the drainer that applies the Insert node
\* when register stored it before that drainer read the task slot (its third
\* step); a task stored after that read stays on the TaskWaiting.
C4_EarlyTaskWoken ==
    \A h \in Handles :
        (/\ handle[h].kind = "Queued"
         /\ tw[handle[h].tw].reg = "early"
         /\ tw[handle[h].tw].loaded)
        => (h \in woken \/ \E t \in Threads : h \in SeqToSet(th[t].tasks))

\* The task was stored in time and the drainer has woken it.
C4_Witness ==
    \E h \in Handles :
        /\ handle[h].kind = "Queued"
        /\ tw[handle[h].tw].reg = "early"
        /\ tw[handle[h].tw].loaded
        /\ h \in woken
        /\ AllIdle

\* -------------------------------------------------------------------- C5
\* C5: a pushed operation does not wait for a later public call: when the
\* lock is free and no call is running, the queue is empty.
C5_NothingPending == (~locked /\ AllIdle) => queue = <<>>

\* -------------------------------------------------------------------- C6
\* C6: at each step that releases the lock, the queue holds no node.
C6_EmptyAtUnlock == [][(locked /\ ~locked') => queue' = <<>>]_vars

\* -------------------------------------------------------------------- C7
\* C7: no wake() is called by a thread that holds the lock.
C7_WakeOutsideLock == ~wakeLocked

\* -------------------------------------------------------------------- C8
\* C8: after notify(k, false) on the slab, the first min(k, len) listeners of
\* the chain are notified.
C8_FirstKNotified ==
    (last.op = "notify" /\ ~last.additional) =>
        LET c == Chain(slab)
        IN  /\ Len(c) = slab.len
            /\ \A i \in 1 .. Min(last.n, slab.len) : is_notified(StateOf(slab, c[i]))

\* notify(2, false) with one of three listeners notified: a second one is.
C8_Witness ==
    /\ last.op = "notify" /\ ~last.additional /\ last.n = 2
    /\ last.pre.notified = 1 /\ slab.len = 3 /\ slab.notified = 2

\* -------------------------------------------------------------------- C9
\* C9 (as claimed): after notify(n, false), n >= 1, the notified count is
\* exactly min(n, len).
C9_ExactlyMin ==
    (last.op = "notify" /\ ~last.additional /\ last.n >= 1) =>
        slab.notified = Min(last.n, slab.len)

\* C9 (amended): after notify(n, false) the notified count is exactly
\* max(count before, min(n, len)), and one more notify(n, false) changes no
\* field of the slab and wakes no task.
C9_MaxOfBefore ==
    (last.op = "notify" /\ ~last.additional) =>
        /\ slab.notified = Max(last.pre.notified, Min(last.n, slab.len))
        /\ SlabNotify(slab, last.n, FALSE) = [slab |-> slab, woken |-> <<>>]

\* notify(1, false) with two listeners already notified, one holding a task.
C9_Witness ==
    /\ last.op = "notify" /\ ~last.additional /\ last.n = 1
    /\ last.pre.notified = 2 /\ slab.notified = 2 /\ slab.len = 3
    /\ \E k \in LiveKeys(slab) : StateOf(slab, k).tag = "Task"

\* ------------------------------------------------------------------- C10
\* C10: notify(k, true) raises the notified count by exactly
\* min(k, len - count before), and the listeners it notifies are the next
\* ones of the chain after those already notified.
C10_AdditionalCount ==
    (last.op = "notify" /\ last.additional) =>
        LET c == Chain(slab)
        IN  /\ slab.notified
                 = last.pre.notified + Min(last.n, last.pre.len - last.pre.notified)
            /\ \A i \in 1 .. Len(c) :
                  is_notified(StateOf(slab, c[i])) <=> i <= slab.notified
            /\ \A i \in 1 .. Len(c) :
                  is_notified(StateOf(last.pre, c[i])) <=> i <= last.pre.notified

\* notify(2, true) with one of three listeners notified, and notify(2, true)
\* that finds only one listener left.
C10_Witness ==
    /\ last.op = "notify" /\ last.additional /\ last.n = 2
    /\ last.pre.notified = 1 /\ slab.notified = 3 /\ slab.len = 3

\* ------------------------------------------------------------------- C11
\* The listeners of s that hold no notification.
Unnotified(s) == {k \in LiveKeys(s) : ~is_notified(StateOf(s, k))}

\* A propagating removal of a notified listener was the last call on the slab.
PropagatedRemoval ==
    /\ last.op = "remove" /\ last.propagate /\ is_notified(last.state)

\* C11 (as claimed): after remove(key, true) of a notified listener the
\* notified count is the count before when another listener was unnotified,
\* and one less otherwise.
C11_CountKept ==
    PropagatedRemoval =>
        slab.notified = IF Unnotified(last.pre) # {} THEN last.pre.notified
                        ELSE last.pre.notified - 1

\* C11 (amended): the count is kept when an unnotified listener exists and
\* the removed listener held an additional notification, or held a
\* non-additional one and was the only notified listener; otherwise it is one
\* less.  The listener that takes the notification over is the first
\* unnotified one of the chain.
C11_CountKeptUnlessClamped ==
    PropagatedRemoval =>
        LET migrates == /\ Unnotified(last.pre) # {}
                        /\ last.state.tag = "Notified"
                        /\ (last.state.additional \/ last.pre.notified = 1)
        IN  /\ slab.notified = IF migrates THEN last.pre.notified
                               ELSE last.pre.notified - 1
            /\ migrates => /\ is_notified(StateOf(slab, last.pre.start))
                           /\ Unnotified(slab) = Unnotified(last.pre) \ {last.pre.start}
            /\ ~migrates => Unnotified(slab) = Unnotified(last.pre)

\* The first of two notified listeners is removed with propagation while a
\* third one is unnotified: for an additional notification the third takes it
\* over.
C11_Witness ==
    /\ PropagatedRemoval /\ last.state = Notified(TRUE)
    /\ last.pre.notified = 2 /\ last.pre.len = 3
    /\ slab.notified = 2 /\ slab.len = 2

\* ------------------------------------------------------------------- C12
\* register was the last call on the slab, on a listener that was notified.
RegisteredNotified ==
    /\ last.op = "register" /\ is_notified(StateOf(last.pre, last.key))

\* C12: register on a notified listener returns Some(true), empties the
\* handle, frees the listener's slot, lowers the notified count by exactly one
\* and notifies no other listener; a second register through the emptied
\* handle returns None and leaves the slab alone.
C12_ConsumedOnce ==
    RegisteredNotified =>
        /\ last.ret = "Some(true)"
        /\ last.handle = NoHandle
        /\ slab.listeners[last.key] = EmptyEntry(last.pre.first_empty)
        /\ slab.first_empty = last.key
        /\ slab.len = last.pre.len - 1
        /\ last.pre.notified >= 1
        /\ slab.notified = last.pre.notified - 1
        /\ Unnotified(slab) = Unnotified(last.pre)
        /\ \A task \in Tasks :
              SlabRegister(slab, last.handle, task)
                  = [slab |-> slab, handle |-> NoHandle, ret |-> "None"]

\* The second of two notified listeners consumes its notification while a
\* third listener waits.
C12_Witness ==
    /\ RegisteredNotified /\ last.ret = "Some(true)"
    /\ last.pre.notified = 2 /\ last.pre.len = 3 /\ slab.notified = 1
    /\ Pos(last.pre, last.key) = 2
    /\ Unnotified(slab) # {}

\* ------------------------------------------------------------------- C13
\* Thread t's register took the lock in this step and called
\* ListenerSlab::register, whose result it will return.
RegisterFast(t) ==
    /\ th[t].pc = "idle" /\ th'[t].pc = "drop" /\ th'[t].op = "register"

\* Thread t's register, which did not get the lock, returns in this step.
RegisterSlow(t) ==
    /\ th[t].pc = "push" /\ th[t].op = "register" /\ th'[t].pc = "idle"

\* The listener of handle h holds task h and no notification.
Installed(s, h) ==
    /\ KeyOf(h) # None /\ IsListener(s, KeyOf(h))
    /\ StateOf(s, KeyOf(h)) = TaskState(h)

\* C13 (as claimed): whenever register returns Some(false) the listener was
\* not notified and its state holds the task; whenever the listener was
\* notified register returns Some(true).
C13_FalseMeansInstalled ==
    [][\A t \in Threads :
          /\ (RegisterFast(t) /\ th'[t].ret = RetSome(FALSE)) =>
                /\ ~is_notified(StateOf(slab, Upgraded(th'[t].h).key))
                /\ slab'.listeners[Upgraded(th'[t].h).key].state = TaskState(th'[t].h)
          /\ (RegisterSlow(t) /\ th'[t].ret = RetSome(FALSE)) =>
                /\ ~is_notified(StateOf(slab, KeyOf(th[t].h)))
                /\ Installed(slab', th[t].h)]_vars

\* C13 (amended): when register takes the lock it returns Some(true) exactly
\* when the listener was notified, and Some(false) with the task installed in
\* the listener's state otherwise; when it does not get the lock it returns
\* Some(false) whatever the listener's state, having pushed Waiting(task) and
\* left the slab alone.
C13_FalseMeansInstalledOrQueued ==
    [][\A t \in Threads :
          /\ RegisterFast(t) =>
                LET key == Upgraded(th'[t].h).key
                IN  /\ th'[t].ret = RetSome(is_notified(StateOf(slab, key)))
                    /\ ~is_notified(StateOf(slab, key)) =>
                          slab'.listeners[key].state = TaskState(th'[t].h)
          /\ RegisterSlow(t) =>
                /\ th'[t].ret = RetSome(FALSE)
                /\ queue' = QueuePush(queue, WaitingNode(th[t].h))
                /\ slab' = slab]_vars

\* One register holds the lock with its task installed, and another one has
\* returned Some(false) for a notified listener, its task waiting in the queue.
C13_Witness ==
    \E t \in Threads, h \in Handles :
        /\ th[t].pc = "drop" /\ th[t].op = "register" /\ th[t].ret = RetSome(FALSE)
        /\ Installed(slab, th[t].h)
        /\ h # th[t].h /\ handle[h].kind = "HasNode"
        /\ is_notified(StateOf(slab, handle[h].key))
        /\ queue = <<WaitingNode(h)>>
        /\ \E u \in Threads : u # t /\ th[u].pc = "idle" /\ th[u].ret = RetSome(FALSE)

\* ------------------------------------------------------------------- C14
\* C14: whenever the lock is free, Inner::notified is slab.notified if
\* slab.notified < slab.len and usize::MAX otherwise; and the counter is
\* stored after the drain and before the unlock: a guard that is about to
\* release the lock has already stored the counter of the slab it leaves.
C14_CounterWhenUnlocked ==
    /\ ~locked =>
          notified = (IF slab.notified < slab.len THEN slab.notified ELSE UsizeMax)
    /\ \A t \in Threads :
          th[t].pc = "unlock" =>
              /\ locked
              /\ notified = (IF slab.notified < slab.len THEN slab.notified ELSE UsizeMax)

\* The lock is free with one of two listeners notified and the counter at 1.
C14_Witness ==
    /\ ~locked /\ AllIdle
    /\ slab.len = 2 /\ slab.notified = 1 /\ notified = 1

\* ------------------------------------------------------------------- C15
\* The threads that own a MutexGuard.
Holders == {t \in Threads : mtx[t].pc \in {"held", "held_rw"}}

\* C15: at most one guard is live at any time, the lock is held while one is,
\* and the value is accessed by its owner alone: no increment made through a
\* guard is lost, and a guard's owner reads what the last write left.
C15_OneGuard ==
    /\ Cardinality(Holders) <= 1
    /\ Holders # {} => locked
    /\ cell.value = cell.writes
    /\ \A t \in Threads : mtx[t].pc = "held_rw" => mtx[t].tmp = cell.value

\* One thread owns the guard and is in the middle of its second increment of
\* the value, while the other one spins in try_lock_slow.
C15_Witness ==
    \E t, u \in Threads :
        /\ mtx[t].pc = "held_rw" /\ cell.writes = 1
        /\ mtx[u].pc = "load" /\ mtx[u].spins < Spins

\* ------------------------------------------------------------------- C16
InTryLock(t) == mtx[t].pc \in {"weak", "load"}

\* C16 (as claimed): every call of try_lock terminates, with a guard or with
\* "not acquired".
C16_Terminates ==
    \A t \in Threads : InTryLock(t) ~> ~InTryLock(t)

\* What holds of the spins at every moment: "not acquired" is returned at the
\* 101st load that sees the lock held, and a call during which the lock stayed
\* held has made one compare_exchange_weak, 103 observations in all.
SpinsAccount ==
    \A t \in Threads :
        /\ InTryLock(t) => /\ mtx[t].seen = Spins - mtx[t].spins
                           /\ mtx[t].stay => (mtx[t].weak <= 1 /\ mtx[t].spur = 0)
        /\ mtx[t].res = "none" => /\ mtx[t].seen = Spins + 1
                                  /\ mtx[t].weak >= 1
                                  /\ mtx[t].stay => mtx[t].weak = 1

\* C16 (amended): a call gives up exactly at the 101st load that sees the lock
\* held; when the lock stays held during the call it terminates, after 103
\* observations of the flag.  (A failed compare_exchange_weak followed by a
\* load that sees the lock free uses up no spin.)
C16_GivesUpWhileHeld ==
    /\ []SpinsAccount
    /\ \A t \in Threads : (InTryLock(t) /\ mtx[t].stay) ~> ~(InTryLock(t) /\ mtx[t].stay)

\* A call gave up although the lock was released and taken again meanwhile:
\* it made more than one compare_exchange_weak.
C16_Witness ==
    \E t \in Threads :
        /\ mtx[t].pc = "idle" /\ mtx[t].res = "none" /\ mtx[t].seen = Spins + 1
        /\ mtx[t].weak = WeakCap /\ ~mtx[t].stay

\* ------------------------------------------------------------------- C17
\* C17: try_lock on a lock that is free succeeds; try_lock_slow returns "not
\* acquired" only at a load that sees the lock held; dropping the guard frees
\* the lock; and the owner of a guard reads every increment made through the
\* guards before it.
C17_LockUnlock ==
    [][\A t \in Threads :
          /\ (mtx[t].pc = "idle" /\ mtx'[t].pc # "idle" /\ ~locked) =>
                (mtx'[t].pc = "held" /\ locked')
          /\ (InTryLock(t) /\ mtx'[t].pc = "idle") => (mtx'[t].res = "none" /\ locked)
          /\ (mtx[t].pc = "held" /\ mtx'[t].pc = "idle") => ~locked'
          /\ (mtx[t].pc = "held" /\ mtx'[t].pc = "held_rw") =>
                mtx'[t].tmp = cell.writes]_vars

\* As in smoke_mutex: a second guard reads the 1 that the first one, since
\* dropped, wrote.
C17_Witness ==
    \E t, u \in Threads :
        /\ mtx[t].pc = "held_rw" /\ mtx[t].tmp = 1
        /\ u # t /\ mtx[u].pc = "idle" /\ mtx[u].res = "dropped"

\* ------------------------------------------------------------------- C18
\* C18: an insert made while the lock is held leaves the handle Queued and
\* the slab alone, and the holder's drain applies the Insert node: at the step
\* where a guard releases the lock, every Queued handle has its key published,
\* naming a listener of the slab that is last in the chain or followed only by
\* listeners inserted by later nodes.
C18_InsertedAtRelease ==
    [][/\ \A t \in Threads :
             (th[t].pc = "push" /\ th[t].op = "insert" /\ th'[t].pc = "idle") =>
                 /\ handle'[th[t].h].kind = "Queued"
                 /\ tw'[handle'[th[t].h].tw].status = None
                 /\ slab' = slab
       /\ (locked /\ ~locked') =>
             \A h \in Handles :
                 handle[h].kind = "Queued" =>
                     /\ tw[handle[h].tw].status # None
                     /\ IsListener(slab, tw[handle[h].tw].status)]_vars

\* ------------------------------------------------------------------- C19
\* A call of remove holds the lock and has yet to return.
Removing(t) ==
    /\ th[t].op = "remove" /\ th[t].pc \in {"notify_wake", "drop", "publish", "load", "unlock", "wake"}

\* C19: remove empties the handle; on a HasNode handle with the lock acquired
\* it frees the listener's slot and returns Some(the state the listener had);
\* on a HasNode handle without the lock it pushes a RemoveListener node and
\* returns None; on a Queued or an empty handle it returns None and touches
\* neither the slab nor the queue.
C19_RemoveReturns ==
    [][\A t \in Threads :
          /\ \A h \in Handles, propagate \in BOOLEAN :
                (th'[t].op \in {"remove", "-"} /\ RemoveCall(t, h, propagate)) =>
                    /\ handle'[h] = NoHandle
                    /\ IF handle[h].kind = "HasNode" /\ ~locked
                       THEN /\ th'[t].ret = RetSome(StateOf(slab, handle[h].key))
                            /\ Removing(t)'
                            /\ slab'.listeners[handle[h].key].kind = "Empty"
                       ELSE IF handle[h].kind = "HasNode"
                       THEN /\ th'[t].pc = "push" /\ th'[t].key = handle[h].key
                            /\ slab' = slab /\ queue' = queue
                       ELSE /\ th'[t] = Return(RetNone)
                            /\ slab' = slab /\ queue' = queue /\ locked' = locked
          /\ RemovePush(t) =>
                /\ th'[t] = Return(RetNone)
                /\ queue' = QueuePush(queue, RemoveNode(th[t].key, th[t].propagate))
                /\ handle'[th[t].h] = NoHandle
          /\ Removing(t) =>
                /\ th'[t].ret = th[t].ret
                /\ handle'[th[t].h] = NoHandle]_vars

\* One remove holds the lock and will return the Notified state its listener
\* had; the other one has returned None, its RemoveListener node in the queue.
C19_Witness ==
    \E t, u \in Threads :
        /\ Removing(t) /\ th[t].ret = RetSome(Notified(FALSE))
        /\ th[u].pc = "idle" /\ th[u].ret = RetNone
        /\ Len(queue) = 1 /\ queue[1].kind = "RemoveListener"
        /\ \A h \in Handles : handle[h] = NoHandle

\* ------------------------------------------------------------------- C20
\* C20: insert on a handle that is HasNode or Queued changes neither the
\* handle, the slab, the queue nor the lock, and returns at once.
C20_InsertAgain ==
    [][\A t \in Threads, h \in Handles :
          (InsertCall(t, h) /\ handle[h].kind # "None") =>
              /\ handle' = handle /\ slab' = slab /\ queue' = queue /\ locked' = locked
              /\ tw' = tw /\ notified' = notified
              /\ th'[t] = Return(RetUnit)]_vars

\* insert was called twice on one handle, which left its insert queued and
\* unapplied.
C20_Witness ==
    /\ acct.on /\ acct.again /\ AllIdle
    /\ \E h \in Handles : handle[h].kind = "Queued" /\ tw[handle[h].tw].status = None
    /\ acct.inserted = 1 /\ slab.len = 0

\* ------------------------------------------------------------------- C21
\* The Empty entries chased from first_empty along next_empty, until an index
\* that is not an Empty entry of the vector.
RECURSIVE FreeFrom(_, _, _)
FreeFrom(s, k, fuel) ==
    IF fuel = 0 \/ k \notin 1 .. Len(s.listeners) \/ s.listeners[k].kind # "Empty"
    THEN <<>>
    ELSE <<k>> \o FreeFrom(s, s.listeners[k].next_empty, fuel - 1)

FreeChain(s) == FreeFrom(s, s.first_empty, Len(s.listeners))

\* Where the chase ends.
FreeEnd(s) ==
    LET c == FreeChain(s)
    IN  IF c = <<>> THEN s.first_empty ELSE s.listeners[c[Len(c)]].next_empty

\* The free list is well formed: the chase visits every Empty entry exactly
\* once and ends at entries.len() (Len(listeners) + 1 here, the Sentinel at
\* index 0 not being kept).
FreeListOk(s) ==
    LET c == FreeChain(s)
    IN  /\ FreeEnd(s) = Len(s.listeners) + 1
        /\ \A i, j \in 1 .. Len(c) : c[i] = c[j] => i = j
        /\ SeqToSet(c) = {k \in 1 .. Len(s.listeners) : s.listeners[k].kind = "Empty"}
        /\ Len(c) = Len(s.listeners) - s.len

\* insert(Created) on s, then remove(new key, false).
RoundTrip(s) ==
    LET i == SlabInsert(s, Created)
    IN  SlabRemove(i.slab, i.key, FALSE)

\* C21: in every reachable slab state, insert(Created) followed by
\* remove(new key, false) returns Created, wakes nothing, restores head, tail,
\* start, notified and len and every listener's entry, leaves the new slot
\* Empty at the head of a well-formed free list, and the vector no shorter.
C21_RoundTrip ==
    LET r == RoundTrip(slab)
        key == SlabInsert(slab, Created).key
    IN  /\ r.state = Created /\ r.woken = <<>>
        /\ r.slab.head = slab.head /\ r.slab.tail = slab.tail
        /\ r.slab.start = slab.start
        /\ r.slab.notified = slab.notified /\ r.slab.len = slab.len
        /\ \A k \in LiveKeys(slab) : r.slab.listeners[k] = slab.listeners[k]
        /\ LiveKeys(r.slab) = LiveKeys(slab)
        /\ r.slab.first_empty = key /\ r.slab.listeners[key].kind = "Empty"
        /\ Len(r.slab.listeners) >= Len(slab.listeners)
        /\ FreeListOk(slab) /\ FreeListOk(r.slab)

\* The round trip is taken in a slab where every listener is notified (start
\* is None, so that insert moves it) and a freed slot is reused.
C21_Witness ==
    /\ slab.len = 2 /\ slab.notified = 2 /\ slab.start = None
    /\ slab.first_empty <= Len(slab.listeners)
    /\ SlabInsert(slab, Created).slab.start = slab.first_empty
    /\ RoundTrip(slab).slab.start = None

\* ------------------------------------------------------------------- C22
\* C22: register on an empty handle returns None at once: the handle stays
\* empty, the lock is not taken, nothing is pushed and the slab, the counter
\* and the TaskWaiting records are unchanged; ListenerSlab::register itself
\* returns None for a handle that is not HasNode.
C22_RegisterOnNone ==
    [][\A t \in Threads, h \in Handles :
          (handle[h] = NoHandle /\ RegisterCall(t, h)) =>
              /\ th'[t] = Return(RetNone)
              /\ handle' = handle /\ locked' = locked /\ queue' = queue
              /\ slab' = slab /\ notified' = notified /\ tw' = tw
              /\ SlabRegister(slab, NoHandle, h)
                    = [slab |-> slab, handle |-> NoHandle, ret |-> "None"]]_vars

\* register was called on an empty handle while another listener sat in the
\* slab and the lock was held by another call.
C22_Witness ==
    /\ acct.on /\ acct.blank
    /\ locked /\ slab.len = 1 /\ queue = <<>>
    /\ \E h \in Handles : handle[h] = NoHandle
    /\ \E t \in Threads : th[t].pc = "idle" /\ th[t].ret = RetNone

\* ------------------------------------------------------------------- C23
\* C23: a listener whose Queued handle was given to Inner::remove is not added
\* to the slab by a later drain: whenever a drain applies an Insert node and
\* creates a slab entry, some handle is still Queued on that node's
\* TaskWaiting, so every listener of the slab is one a caller still owns or
\* has a removal queued for.
C23_RemovedNotInserted ==
    [][\A t \in Threads :
          (th[t].pc = "drop" /\ th'[t].pc = "publish") =>
              /\ slab'.len = slab.len + 1
              /\ \E h \in Handles : handle[h] = Queued(th'[t].cur)]_vars

\* ------------------------------------------------------------------- C24
\* C24: after every operation on the slab the notified listeners are a prefix
\* of the chain: start, when Some, names a listener of the chain, every
\* listener from start on is Created or Task and every listener before start
\* is notified; when start is None every listener of the chain is notified.
C24_StartSplits ==
    LET c == Chain(slab)
        p == Pos(slab, slab.start)
    IN  IF slab.start = None
        THEN \A i \in 1 .. Len(c) : is_notified(StateOf(slab, c[i]))
        ELSE /\ IsListener(slab, slab.start)
             /\ p > 0
             /\ \A i \in 1 .. Len(c) :
                    /\ i < p => is_notified(StateOf(slab, c[i]))
                    /\ i >= p => StateOf(slab, c[i]).tag \in {"Created", "Task"}

\* The listener start pointed to was removed between a notified and an
\* unnotified one: start moved on to the unnotified one.
C24_Witness ==
    /\ last.op = "remove" /\ last.pre.start = last.key
    /\ slab.len = 2 /\ slab.notified = 1
    /\ slab.start = slab.tail /\ slab.start # slab.head

\* ------------------------------------------------------------------- C25
\* C25: after every operation on the slab the chain is a well-formed doubly
\* linked list: head is None iff tail is None iff len is 0; following next
\* from head visits exactly len Listener entries, all different, and ends at
\* tail; following prev from tail visits the same entries in reverse.
RECURSIVE ChainBack(_, _, _)
ChainBack(s, k, fuel) ==
    IF k = None \/ fuel = 0 \/ ~IsListener(s, k) THEN <<>>
    ELSE <<k>> \o ChainBack(s, s.listeners[k].prev, fuel - 1)

RECURSIVE ChainFwd(_, _, _)
ChainFwd(s, k, fuel) ==
    IF k = None \/ fuel = 0 \/ ~IsListener(s, k) THEN <<>>
    ELSE <<k>> \o ChainFwd(s, s.listeners[k].next, fuel - 1)

C25_ChainWellFormed ==
    LET f == ChainFwd(slab, slab.head, Len(slab.listeners) + 1)
        b == ChainBack(slab, slab.tail, Len(slab.listeners) + 1)
    IN  /\ (slab.head = None) = (slab.tail = None)
        /\ (slab.head = None) = (slab.len = 0)
        /\ Len(f) = slab.len
        /\ \A i, j \in 1 .. Len(f) : f[i] = f[j] => i = j
        /\ SeqToSet(f) = LiveKeys(slab)
        /\ slab.len > 0 =>
              /\ f[Len(f)] = slab.tail
              /\ slab.listeners[slab.tail].next = None
              /\ slab.listeners[slab.head].prev = None
        /\ Len(b) = Len(f)
        /\ \A i \in 1 .. Len(f) : b[i] = f[Len(f) + 1 - i]

\* The tail of a chain of three was removed, through a slot order that
\* differs from the chain order.
C25_Witness ==
    /\ last.op = "remove" /\ last.pre.tail = last.key /\ last.pre.len = 3
    /\ slab.len = 2 /\ slab.head > slab.tail

\* ------------------------------------------------------------------- C26
\* C26: after every operation on the slab, notified equals the number of
\* Listener entries whose state is Notified(_) or NotifiedTaken; so it is at
\* most len and the saturating subtraction in remove never saturates.
NotifiedKeys(s) == {k \in LiveKeys(s) : is_notified(StateOf(s, k))}

C26_NotifiedCounts ==
    /\ slab.notified = Cardinality(NotifiedKeys(slab))
    /\ slab.notified <= slab.len
    /\ \A k \in NotifiedKeys(slab) : slab.notified >= 1

\* A notified listener was removed while another stayed notified and a third
\* had not been notified.
C26_Witness ==
    /\ last.op = "remove" /\ is_notified(last.state)
    /\ last.pre.notified = 2 /\ slab.notified = 1 /\ slab.len = 2

\* ------------------------------------------------------------------- C27
\* C27: after every operation on the slab the free list is well formed:
\* chasing next-empty from first_empty visits every Empty entry exactly once,
\* that is entries.len() - 1 - len entries, never a Listener or the sentinel,
\* and ends at entries.len(); insert takes the most recently freed slot before
\* it grows the vector.
C27_FreeList ==
    /\ FreeListOk(slab)
    /\ slab.first_empty \in 1 .. Len(slab.listeners) + 1
    /\ \A k \in SeqToSet(FreeChain(slab)) : ~IsListener(slab, k)
    /\ SlabInsert(slab, Created).key = slab.first_empty
    /\ (slab.len < Len(slab.listeners)) =>
          Len(SlabInsert(slab, Created).slab.listeners) = Len(slab.listeners)
    /\ last.op = "remove" => slab.first_empty = last.key
    /\ (last.op = "insert" /\ last.pre.len < Len(last.pre.listeners)) =>
          /\ last.key = last.pre.first_empty
          /\ Len(slab.listeners) = Len(last.pre.listeners)

\* Two slots were freed, the lower one last, and an insert took the lower
\* one, leaving the other on the free list.
C27_Witness ==
    /\ last.op = "insert" /\ last.key = 1
    /\ Len(last.pre.listeners) = 3 /\ last.pre.len = 1
    /\ FreeChain(last.pre) = <<1, 2>>
    /\ FreeChain(slab) = <<2>> /\ Len(slab.listeners) = 3

\* ------------------------------------------------------------------- C28
\* C28: register on a listener that is not notified returns Some(false) and
\* changes only that listener's state, to Task(existing) when the new task
\* will_wake the one already registered and to Task(new) otherwise; the rest
\* of the slab is unchanged and the handle stays HasNode(key).
C28_RegisterInstalls ==
    (last.op = "register" /\ ~is_notified(StateOf(last.pre, last.key))) =>
        LET old == StateOf(last.pre, last.key)
            st == IF old.tag = "Task" /\ will_wake(last.task, old.task)
                  THEN TaskState(old.task) ELSE TaskState(last.task)
        IN  /\ last.ret = "Some(false)"
            /\ last.handle = HasNode(last.key)
            /\ slab = [last.pre EXCEPT !.listeners[last.key].state = st]

\* A second, different task was registered on the unnotified one of two
\* listeners and replaced the first.
C28_Witness ==
    /\ last.op = "register" /\ last.task = 2
    /\ StateOf(last.pre, last.key) = TaskState(1)
    /\ StateOf(slab, last.key) = TaskState(2)
    /\ slab.len = 2 /\ slab.notified = 1

\* ------------------------------------------------------------------- C29
\* C29: notify on the slab wakes exactly the tasks registered on the
\* listeners that this call moves to Notified, in chain order, and a
\* non-additional notify(n) with n <= notified wakes none and changes nothing.
MovedTasks(pre, post) ==
    LET Moved(k) == /\ ~is_notified(StateOf(pre, k))
                    /\ IsListener(post, k) /\ is_notified(StateOf(post, k))
                    /\ StateOf(pre, k).tag = "Task"
        ks == SelectSeq(Chain(pre), Moved)
    IN  [i \in 1 .. Len(ks) |-> StateOf(pre, ks[i]).task]

C29_WakesMoved ==
    last.op = "notify" =>
        /\ last.woken = MovedTasks(last.pre, slab)
        /\ \A k \in LiveKeys(slab) :
              ~is_notified(StateOf(slab, k)) => StateOf(slab, k) = StateOf(last.pre, k)
        /\ (~last.additional /\ last.n <= last.pre.notified) =>
              /\ last.woken = <<>>
              /\ slab = last.pre

\* notify(2, true) moved a listener with a task and one without: one wake;
\* a listener with a task further on was not reached.
C29_Witness ==
    /\ last.op = "notify" /\ last.additional /\ last.n = 2
    /\ Len(last.woken) = 1
    /\ slab.notified = last.pre.notified + 2
    /\ \E k \in LiveKeys(slab) : StateOf(slab, k).tag = "Task"

\* ------------------------------------------------------------------- C30
\* C30: no internal invariant is breached: every key held in a HasNode
\* handle, published on a Queued handle's TaskWaiting, carried by a
\* RemoveListener node that is queued or about to be pushed, or stored in head,
\* tail, start or a listener's prev or next names a Listener entry, no two of
\* the handles and removal nodes name the same entry, and the slot insert
\* writes next is Empty or one past the end of the vector.
RemovalKeys ==
    {queue[i].listener : i \in {j \in 1 .. Len(queue) : queue[j].kind = "RemoveListener"}}
        \cup {th[t].key : t \in {u \in Threads : th[u].pc = "push" /\ th[u].op = "remove"}}

C30_KeysNameListeners ==
    /\ \A h \in Handles :
          /\ handle[h].kind = "HasNode" => IsListener(slab, handle[h].key)
          /\ (handle[h].kind = "Queued" /\ tw[handle[h].tw].status # None) =>
                IsListener(slab, tw[handle[h].tw].status)
          /\ KeyOf(h) # None => KeyOf(h) \notin RemovalKeys
    /\ \A h, g \in Handles : (h # g /\ KeyOf(h) # None) => KeyOf(h) # KeyOf(g)
    /\ \A k \in RemovalKeys : IsListener(slab, k)
    /\ \A i, j \in 1 .. Len(queue) :
          (i # j /\ queue[i].kind = "RemoveListener" /\ queue[j].kind = "RemoveListener")
              => queue[i].listener # queue[j].listener
    /\ \A k \in {slab.head, slab.tail, slab.start} : k = None \/ IsListener(slab, k)
    /\ \A k \in LiveKeys(slab) :
          /\ slab.listeners[k].prev = None \/ IsListener(slab, slab.listeners[k].prev)
          /\ slab.listeners[k].next = None \/ IsListener(slab, slab.listeners[k].next)
    /\ \/ slab.first_empty = Len(slab.listeners) + 1
       \/ /\ slab.first_empty \in 1 .. Len(slab.listeners)
          /\ slab.listeners[slab.first_empty].kind = "Empty"

\* A queued removal names one listener, a handle names another, and a slot
\* freed earlier is the one insert would write.
C30_Witness ==
    /\ \E i \in 1 .. Len(queue) : queue[i].kind = "RemoveListener"
    /\ \E h \in Handles : handle[h].kind = "HasNode"
    /\ slab.len = 2
    /\ slab.first_empty <= Len(slab.listeners)

====
